---- MODULE Spec2Model ----
(***************************************************************************)
(* Model of python-scripts/extract_pose.py and python-scripts/diagnose.py. *)
(*                                                                         *)
(* Both scripts are single-threaded programs that run once and terminate.  *)
(* They are modelled as two processes that run in the same environment     *)
(* (the same set of installed libraries).                                  *)
(*                                                                         *)
(* Conventions                                                             *)
(*   - a Python str is a sequence of word tokens; f-string interpolation   *)
(*     and "+" are \o; the empty str is << >>.                             *)
(*   - a Python float is a rational [num, den] where the code divides;     *)
(*     landmark fields are integers in units of 1/VisMax.                  *)
(*   - a Python dict is a record; a value that is None or not yet bound    *)
(*     is the empty sequence, a bound one is a one-element sequence.       *)
(*   - stdout is the sequence of objects handed to print(json.dumps(..)).  *)
(***************************************************************************)
EXTENDS Integers, Sequences, FiniteSets, TLC

VARIABLES
    installed,              \* environment: the libraries that can be imported
    argv,                   \* sys.argv of extract_pose.py
    pc,                     \* position of extract_pose.py
    DEPENDENCIES_AVAILABLE, \* module global of extract_pose.py
    extractor,              \* the PoseExtractor built by main
    image,                  \* cv2.imread result
    image_rgb,              \* cv2.cvtColor result
    results,                \* self.pose.process result
    keypoints,              \* loop accumulator
    total_confidence,       \* loop accumulator
    idx,                    \* loop index of enumerate
    result,                 \* return value of extract_keypoints
    stdout,                 \* objects printed by extract_pose.py
    exit_code,              \* exit status of extract_pose.py, -1 while running
    exc,                    \* history: the exception raised and the guard that caught it
    executed,               \* history: the stages executed, in order
    dpc,                    \* position of diagnose.py
    dependencies,           \* dict of diagnose.py
    probed,                 \* history: libraries diagnose.py tried to import
    dstdout,                \* objects printed by diagnose.py
    dexit_code              \* exit status of diagnose.py, -1 while running

vars == <<installed, argv, pc, DEPENDENCIES_AVAILABLE, extractor, image, image_rgb, results,
          keypoints, total_confidence, idx, result, stdout, exit_code, exc,
          executed, dpc, dependencies, probed, dstdout, dexit_code>>

extractVars == <<argv, pc, DEPENDENCIES_AVAILABLE, extractor, image, image_rgb, results,
                 keypoints, total_confidence, idx, result, stdout, exit_code,
                 exc, executed>>

diagVars == <<dpc, dependencies, probed, dstdout, dexit_code>>

(***************************************************************************)
(* Bounds and environment                                                  *)
(***************************************************************************)

\* visibility and coordinates take the values 0..VisMax (units of 1/VisMax)
VisMax == 2

\* number of landmarks in results.pose_landmarks.landmark (MediaPipe Pose)
PoseLandmarkCount == 33

RequiredLibs == {"cv2", "mediapipe", "numpy"}

\* what the path names: nothing, an entry of a directory that may not be
\* searched (stat fails with EACCES), a file that is no image, an image
\* without a person, an image with a person
FileKinds == {"absent", "no_access", "not_image", "no_person", "person"}

Paths == {"absent.jpg", "locked/pic.jpg", "notes.txt", "room.jpg", "person.jpg"}

FileKind(path) ==
    CASE path = "absent.jpg" -> "absent"
      [] path = "locked/pic.jpg" -> "no_access"
      [] path = "notes.txt"  -> "not_image"
      [] path = "room.jpg"   -> "no_person"
      [] OTHER               -> "person"

\* image.shape[:2] of the images the environment holds
ImageShapes == {[height |-> 480, width |-> 640], [height |-> 1, width |-> 2]}

\* str(e) of the exceptions library calls may raise; a Python exception
\* built without arguments has the empty message
ExcMessages == {<< >>, <<"internal", "failure">>}

\* the landmark lists the pose model may return: the first k landmarks have
\* visibility a, the others visibility b
LandmarkList(k, a, b) ==
    [i \in 1..PoseLandmarkCount |->
        [x |-> (i % (VisMax + 1)), y |-> ((i + 1) % (VisMax + 1)), z |-> 0 - (i % 2),
         visibility |-> IF i <= k THEN a ELSE b]]

LandmarkLists ==
    {LandmarkList(k, a, b) : k \in {0, 1, 16, 32}, a \in 0..VisMax, b \in 0..VisMax}

(***************************************************************************)
(* Strings and numbers                                                     *)
(***************************************************************************)

\* str(e) of the ImportError raised by "import lib"
ImportErrorStr(lib) == <<"No", "module", "named", lib>>

\* traceback.format_exc() while handling an exception raised in stage
format_exc(stage, msg) == <<"Traceback", "(most", "recent", "call", "last)", ":", stage>> \o msg

\* str(e) of the PermissionError that Path.is_file lets through
PermissionErrorStr(path) == <<"[Errno 13]", "Permission", "denied", ":", path>>

\* a / b of Python, as a rational
TrueDiv(a, b) == [num |-> a, den |-> b]

\* the literal 0.0
ZeroFloat == [num |-> 0, den |-> 1]

(***************************************************************************)
(* Result objects                                                          *)
(***************************************************************************)

MissingDependencyMessage(e) ==
    [success |-> FALSE,
     error |-> <<"Missing", "Python", "dependency", ":">> \o e \o
               <<".", "Please", "install", "required", "packages", "with", ":",
                 "pip", "install", "opencv-python", "mediapipe", "numpy">>,
     keypoints |-> << >>,
     confidence |-> ZeroFloat]

UsageFailure ==
    [success |-> FALSE,
     error |-> <<"No", "image", "path", "provided", ".", "Usage", ":",
                 "python", "extract_pose.py", "<image_path>">>,
     keypoints |-> << >>,
     confidence |-> ZeroFloat]

FileNotFoundFailure(image_path) ==
    [success |-> FALSE,
     error |-> <<"Image", "file", "not", "found", ":", image_path>>,
     keypoints |-> << >>,
     confidence |-> ZeroFloat]

UnreadableFailure(image_path) ==
    [success |-> FALSE,
     error |-> <<"Could", "not", "read", "image", "file", ":", image_path>>,
     keypoints |-> << >>,
     confidence |-> ZeroFloat]

NoPoseFailure ==
    [success |-> FALSE,
     error |-> <<"No", "pose", "detected", "in", "image">>,
     keypoints |-> << >>,
     confidence |-> ZeroFloat]

\* the dict returned by "except Exception as e" of extract_keypoints
InnerGuardFailure(msg, tb) ==
    [success |-> FALSE,
     error |-> msg,
     traceback |-> tb,
     keypoints |-> << >>,
     confidence |-> ZeroFloat]

\* variant: the guard of main reports str(e) without the "Unexpected error" prefix
OuterGuardFailure_NoPrefix(msg, tb) ==
    [success |-> FALSE,
     error |-> msg,
     traceback |-> tb,
     keypoints |-> << >>,
     confidence |-> ZeroFloat]

\* the dict printed by "except Exception as e" of main
OuterGuardFailure(msg, tb) ==
    [success |-> FALSE,
     error |-> <<"Unexpected", "error", ":">> \o msg,
     traceback |-> tb,
     keypoints |-> << >>,
     confidence |-> ZeroFloat]

landmark_names ==
    <<"NOSE", "LEFT_EYE_INNER", "LEFT_EYE", "LEFT_EYE_OUTER",
      "RIGHT_EYE_INNER", "RIGHT_EYE", "RIGHT_EYE_OUTER",
      "LEFT_EAR", "RIGHT_EAR", "MOUTH_LEFT", "MOUTH_RIGHT",
      "LEFT_SHOULDER", "RIGHT_SHOULDER", "LEFT_ELBOW", "RIGHT_ELBOW",
      "LEFT_WRIST", "RIGHT_WRIST", "LEFT_PINKY", "RIGHT_PINKY",
      "LEFT_INDEX", "RIGHT_INDEX", "LEFT_THUMB", "RIGHT_THUMB",
      "LEFT_HIP", "RIGHT_HIP", "LEFT_KNEE", "RIGHT_KNEE",
      "LEFT_ANKLE", "RIGHT_ANKLE", "LEFT_HEEL", "RIGHT_HEEL",
      "LEFT_FOOT_INDEX", "RIGHT_FOOT_INDEX">>

\* f"LANDMARK_{i}"
FallbackName(i) == <<"LANDMARK_", i>>

\* variant: the bound of the table lookup is one short
_get_landmark_name_OffByOne(i) ==
    IF i < Len(landmark_names) - 1 THEN <<landmark_names[i + 1]>> ELSE FallbackName(i)

\* _get_landmark_name(i), i counted from 0 as in the code
_get_landmark_name(i) ==
    IF i < Len(landmark_names) THEN <<landmark_names[i + 1]>> ELSE FallbackName(i)

\* the keypoint dict built in the loop body for landmark number i (from 0)
Keypoint(i, landmark) ==
    [id |-> i,
     name |-> _get_landmark_name(i),
     x |-> landmark.x,
     y |-> landmark.y,
     z |-> landmark.z,
     visibility |-> landmark.visibility]

\* total_confidence / len(keypoints) if keypoints else 0.0
avg_confidence(total, kps) ==
    IF Len(kps) > 0 THEN TrueDiv(total, Len(kps)) ELSE ZeroFloat

SuccessResult(kps, total, img) ==
    [success |-> TRUE,
     keypoints |-> kps,
     keypoints_count |-> Len(kps),
     confidence |-> avg_confidence(total, kps),
     image_dimensions |-> [width |-> img.width, height |-> img.height],
     pose_detected |-> TRUE]

(***************************************************************************)
(* Initial state: the environment is chosen, nothing has run               *)
(***************************************************************************)

Argvs == {<<"extract_pose.py">>} \cup {<<"extract_pose.py", p>> : p \in Paths}

\* sys.version
sys_version == <<"3.11.4">>

Init ==
    /\ installed \in SUBSET RequiredLibs
    /\ argv \in Argvs
    /\ pc = "import_cv2"
    /\ DEPENDENCIES_AVAILABLE = "unbound"
    /\ extractor = << >>
    /\ image = << >>
    /\ image_rgb = << >>
    /\ results = << >>
    /\ keypoints = << >>
    /\ total_confidence = 0
    /\ idx = 0
    /\ result = << >>
    /\ stdout = << >>
    /\ exit_code = -1
    /\ exc = << >>
    /\ executed = << >>
    /\ dpc = "probe_cv2"
    /\ dependencies = [l \in RequiredLibs |-> FALSE]
    /\ probed = {}
    /\ dstdout = << >>
    /\ dexit_code = -1

(***************************************************************************)
(* extract_pose.py: module import guard                                    *)
(***************************************************************************)

\* sys.exit(code); SystemExit is no Exception and passes "except Exception"
SysExit(code) ==
    /\ pc' = "exited"
    /\ exit_code' = code

\* "import lib" inside the try of the import guard; the ImportError of the
\* first library that does not load is handled by the except clause
Import(lib, here, next) ==
    /\ pc = here
    /\ executed' = Append(executed, here)
    /\ IF lib \in installed
         THEN /\ pc' = next
              /\ DEPENDENCIES_AVAILABLE' =
                    IF next = "main" THEN "True" ELSE DEPENDENCIES_AVAILABLE
              /\ UNCHANGED <<stdout, exit_code>>
         ELSE /\ DEPENDENCIES_AVAILABLE' = "False"
              /\ stdout' = Append(stdout, MissingDependencyMessage(ImportErrorStr(lib)))
              /\ SysExit(1)
    /\ UNCHANGED <<installed, argv, extractor, image, image_rgb, results, keypoints,
                   total_confidence, idx, result, exc>>
    /\ UNCHANGED diagVars

ImportCv2 == Import("cv2", "import_cv2", "import_mediapipe")

ImportMediapipe == Import("mediapipe", "import_mediapipe", "import_numpy")

ImportNumpy == Import("numpy", "import_numpy", "main")

(***************************************************************************)
(* extract_pose.py: main                                                   *)
(***************************************************************************)

\* variant: the except clause of main prints and falls off the end of main
OuterGuard_NoExit(stage, msg) ==
    /\ stdout' = Append(stdout, OuterGuardFailure(msg, format_exc(stage, msg)))
    /\ exc' = <<[stage |-> stage, msg |-> msg, guard |-> "outer"]>>
    /\ SysExit(0)

\* the except clause of main: print the failure, sys.exit(1)
OuterGuard(stage, msg) ==
    /\ stdout' = Append(stdout, OuterGuardFailure(msg, format_exc(stage, msg)))
    /\ exc' = <<[stage |-> stage, msg |-> msg, guard |-> "outer"]>>
    /\ SysExit(1)

\* variant: main guards with a bare "except:", which also catches the
\* SystemExit of sys.exit(1) and prints a second object
MainArgCheck_ExitCaught ==
    /\ pc = "main"
    /\ executed' = Append(executed, "arg_check")
    /\ IF Len(argv) < 2
         THEN /\ stdout' = Append(Append(stdout, UsageFailure),
                                  OuterGuardFailure(<<"1">>, format_exc("arg_check", <<"1">>)))
              /\ SysExit(1)
         ELSE /\ pc' = "construct"
              /\ UNCHANGED <<stdout, exit_code>>
    /\ UNCHANGED <<installed, argv, DEPENDENCIES_AVAILABLE, extractor, image, image_rgb,
                   results, keypoints, total_confidence, idx, result, exc>>
    /\ UNCHANGED diagVars

\* variant: sys.exit() without a status after the usage failure
MainArgCheck_ExitZero ==
    /\ pc = "main"
    /\ executed' = Append(executed, "arg_check")
    /\ IF Len(argv) < 2
         THEN /\ stdout' = Append(stdout, UsageFailure)
              /\ SysExit(0)
         ELSE /\ pc' = "construct"
              /\ UNCHANGED <<stdout, exit_code>>
    /\ UNCHANGED <<installed, argv, DEPENDENCIES_AVAILABLE, extractor, image, image_rgb,
                   results, keypoints, total_confidence, idx, result, exc>>
    /\ UNCHANGED diagVars

\* if len(sys.argv) < 2: print usage failure, sys.exit(1)
MainArgCheck ==
    /\ pc = "main"
    /\ executed' = Append(executed, "arg_check")
    /\ IF Len(argv) < 2
         THEN /\ stdout' = Append(stdout, UsageFailure)
              /\ SysExit(1)
         ELSE /\ pc' = "construct"
              /\ UNCHANGED <<stdout, exit_code>>
    /\ UNCHANGED <<installed, argv, DEPENDENCIES_AVAILABLE, extractor, image, image_rgb,
                   results, keypoints, total_confidence, idx, result, exc>>
    /\ UNCHANGED diagVars

\* the Pose(...) arguments of PoseExtractor.__init__
PoseConfig ==
    [static_image_mode |-> TRUE,
     model_complexity |-> 2,
     enable_segmentation |-> FALSE,
     min_detection_confidence |-> TrueDiv(1, 2)]

\* variant: the extractor is built outside the try of main, so an exception
\* of the constructor ends the process with nothing printed
Construct_Unguarded ==
    /\ pc = "construct"
    /\ executed' = Append(executed, "construct")
    /\ \/ /\ extractor' = <<PoseConfig>>
          /\ pc' = "is_file"
          /\ UNCHANGED <<stdout, exit_code, exc>>
       \/ /\ \E msg \in ExcMessages :
                exc' = <<[stage |-> "construct", msg |-> msg, guard |-> "none"]>>
          /\ SysExit(1)
          /\ UNCHANGED <<extractor, stdout>>
    /\ UNCHANGED <<installed, argv, DEPENDENCIES_AVAILABLE, image, image_rgb, results,
                   keypoints, total_confidence, idx, result>>
    /\ UNCHANGED diagVars

\* extractor = PoseExtractor(); building the model may raise
Construct ==
    /\ pc = "construct"
    /\ executed' = Append(executed, "construct")
    /\ \/ /\ extractor' = <<PoseConfig>>
          /\ pc' = "is_file"
          /\ UNCHANGED <<stdout, exit_code, exc>>
       \/ /\ \E msg \in ExcMessages : OuterGuard("construct", msg)
          /\ UNCHANGED extractor
    /\ UNCHANGED <<installed, argv, DEPENDENCIES_AVAILABLE, image, image_rgb, results,
                   keypoints, total_confidence, idx, result>>
    /\ UNCHANGED diagVars

\* print(json.dumps(result)) and the normal end of the process; serializing
\* a result that holds library values may raise
PrintResult ==
    /\ pc = "print_result"
    /\ executed' = Append(executed, "print")
    /\ \/ /\ stdout' = Append(stdout, result[1])
          /\ SysExit(0)
          /\ UNCHANGED exc
       \/ /\ result[1].success
          /\ \E msg \in ExcMessages : OuterGuard("print", msg)
    /\ UNCHANGED <<installed, argv, DEPENDENCIES_AVAILABLE, extractor, image, image_rgb,
                   results, keypoints, total_confidence, idx, result>>
    /\ UNCHANGED diagVars

(***************************************************************************)
(* extract_pose.py: PoseExtractor.extract_keypoints                        *)
(***************************************************************************)

image_path == argv[2]

\* a "return {...}" of extract_keypoints: main goes on to print the dict
Return(dict) ==
    /\ result' = <<dict>>
    /\ pc' = "print_result"

\* the except clause of extract_keypoints
InnerGuard(stage, msg) ==
    /\ Return(InnerGuardFailure(msg, format_exc(stage, msg)))
    /\ exc' = <<[stage |-> stage, msg |-> msg, guard |-> "inner"]>>

\* variant: the "not" of the file check is missing
FileCheck_Inverted ==
    /\ pc = "is_file"
    /\ executed' = Append(executed, "file_check")
    /\ CASE FileKind(image_path) = "absent" ->
              /\ pc' = "imread"
              /\ UNCHANGED <<result, exc>>
         [] FileKind(image_path) = "no_access" ->
              InnerGuard("file_check", PermissionErrorStr(image_path))
         [] OTHER ->
              /\ Return(FileNotFoundFailure(image_path))
              /\ UNCHANGED exc
    /\ UNCHANGED <<installed, argv, DEPENDENCIES_AVAILABLE, extractor, image, image_rgb,
                   results, keypoints, total_confidence, idx, stdout, exit_code>>
    /\ UNCHANGED diagVars

\* variant: the failure dict of the file check is built but not returned
FileCheck_FallThrough ==
    /\ pc = "is_file"
    /\ executed' = Append(executed, "file_check")
    /\ CASE FileKind(image_path) = "no_access" ->
              InnerGuard("file_check", PermissionErrorStr(image_path))
         [] OTHER ->
              /\ pc' = "imread"
              /\ UNCHANGED <<result, exc>>
    /\ UNCHANGED <<installed, argv, DEPENDENCIES_AVAILABLE, extractor, image, image_rgb,
                   results, keypoints, total_confidence, idx, stdout, exit_code>>
    /\ UNCHANGED diagVars

\* if not Path(image_path).is_file(): return failure; is_file answers False
\* for a missing path and raises the OSError of a stat that fails otherwise
FileCheck ==
    /\ pc = "is_file"
    /\ executed' = Append(executed, "file_check")
    /\ CASE FileKind(image_path) = "absent" ->
              /\ Return(FileNotFoundFailure(image_path))
              /\ UNCHANGED exc
         [] FileKind(image_path) = "no_access" ->
              InnerGuard("file_check", PermissionErrorStr(image_path))
         [] OTHER ->
              /\ pc' = "imread"
              /\ UNCHANGED <<result, exc>>
    /\ UNCHANGED <<installed, argv, DEPENDENCIES_AVAILABLE, extractor, image, image_rgb,
                   results, keypoints, total_confidence, idx, stdout, exit_code>>
    /\ UNCHANGED diagVars

\* image = cv2.imread(image_path); if image is None: return failure
Decode ==
    /\ pc = "imread"
    /\ executed' = Append(executed, "decode")
    /\ \/ /\ FileKind(image_path) = "not_image"
          /\ Return(UnreadableFailure(image_path))
          /\ UNCHANGED <<image, exc>>
       \/ /\ FileKind(image_path) # "not_image"
          /\ \E shape \in ImageShapes : image' = <<[shape |-> shape, order |-> "BGR"]>>
          /\ pc' = "cvtColor"
          /\ UNCHANGED <<result, exc>>
       \/ /\ \E msg \in ExcMessages : InnerGuard("decode", msg)
          /\ UNCHANGED image
    /\ UNCHANGED <<installed, argv, DEPENDENCIES_AVAILABLE, extractor, image_rgb,
                   results, keypoints, total_confidence, idx, stdout, exit_code>>
    /\ UNCHANGED diagVars

\* image_rgb = cv2.cvtColor(image, cv2.COLOR_BGR2RGB)
ConvertColor ==
    /\ pc = "cvtColor"
    /\ executed' = Append(executed, "color")
    /\ \/ /\ image_rgb' = <<[image[1] EXCEPT !.order = "RGB"]>>
          /\ pc' = "process"
          /\ UNCHANGED <<result, exc>>
       \/ /\ \E msg \in ExcMessages : InnerGuard("color", msg)
          /\ UNCHANGED image_rgb
    /\ UNCHANGED <<installed, argv, DEPENDENCIES_AVAILABLE, extractor, image,
                   results, keypoints, total_confidence, idx, stdout, exit_code>>
    /\ UNCHANGED diagVars

\* results = self.pose.process(image_rgb)
Inference ==
    /\ pc = "process"
    /\ executed' = Append(executed, "inference")
    /\ \/ /\ FileKind(image_path) = "no_person"
          /\ results' = <<[pose_landmarks |-> << >>]>>
          /\ pc' = "check_landmarks"
          /\ UNCHANGED <<result, exc>>
       \/ /\ FileKind(image_path) = "person"
          /\ \E lms \in LandmarkLists :
                results' = <<[pose_landmarks |-> <<[landmark |-> lms]>>]>>
          /\ pc' = "check_landmarks"
          /\ UNCHANGED <<result, exc>>
       \/ /\ \E msg \in ExcMessages : InnerGuard("inference", msg)
          /\ UNCHANGED results
    /\ UNCHANGED <<installed, argv, DEPENDENCIES_AVAILABLE, extractor, image, image_rgb,
                   keypoints, total_confidence, idx, stdout, exit_code>>
    /\ UNCHANGED diagVars

\* if not results.pose_landmarks: return failure; else enter the loop
DetectionCheck ==
    /\ pc = "check_landmarks"
    /\ executed' = Append(executed, "detection_check")
    /\ IF results[1].pose_landmarks = << >>
         THEN /\ Return(NoPoseFailure)
              /\ UNCHANGED <<keypoints, total_confidence, idx>>
         ELSE /\ keypoints' = << >>
              /\ total_confidence' = 0
              /\ idx' = 0
              /\ pc' = "loop"
              /\ UNCHANGED result
    /\ UNCHANGED <<installed, argv, DEPENDENCIES_AVAILABLE, extractor, image, image_rgb,
                   results, stdout, exit_code, exc>>
    /\ UNCHANGED diagVars

landmarks == results[1].pose_landmarks[1].landmark

\* variant: "total_confidence = landmark.visibility" in place of "+="
LoopBody_Assign ==
    /\ pc = "loop"
    /\ idx < Len(landmarks)
    /\ executed' = Append(executed, "landmark_extraction")
    /\ \/ /\ keypoints' = Append(keypoints, Keypoint(idx, landmarks[idx + 1]))
          /\ total_confidence' = landmarks[idx + 1].visibility
          /\ idx' = idx + 1
          /\ UNCHANGED <<pc, result, exc>>
       \/ /\ \E msg \in ExcMessages : InnerGuard("landmark_extraction", msg)
          /\ UNCHANGED <<keypoints, total_confidence, idx>>
    /\ UNCHANGED <<installed, argv, DEPENDENCIES_AVAILABLE, extractor, image, image_rgb,
                   results, stdout, exit_code>>
    /\ UNCHANGED diagVars

\* one iteration of "for idx, landmark in enumerate(...)"
LoopBody ==
    /\ pc = "loop"
    /\ idx < Len(landmarks)
    /\ executed' = Append(executed, "landmark_extraction")
    /\ \/ /\ keypoints' = Append(keypoints, Keypoint(idx, landmarks[idx + 1]))
          /\ total_confidence' = total_confidence + landmarks[idx + 1].visibility
          /\ idx' = idx + 1
          /\ UNCHANGED <<pc, result, exc>>
       \/ /\ \E msg \in ExcMessages : InnerGuard("landmark_extraction", msg)
          /\ UNCHANGED <<keypoints, total_confidence, idx>>
    /\ UNCHANGED <<installed, argv, DEPENDENCIES_AVAILABLE, extractor, image, image_rgb,
                   results, stdout, exit_code>>
    /\ UNCHANGED diagVars

\* after the loop: average, image.shape[:2], return the success dict
Aggregate ==
    /\ pc = "loop"
    /\ idx = Len(landmarks)
    /\ executed' = Append(executed, "aggregate")
    /\ Return(SuccessResult(keypoints, total_confidence, image[1].shape))
    /\ UNCHANGED <<installed, argv, DEPENDENCIES_AVAILABLE, extractor, image, image_rgb,
                   results, keypoints, total_confidence, idx, stdout, exit_code, exc>>
    /\ UNCHANGED diagVars

(***************************************************************************)
(* diagnose.py                                                             *)
(***************************************************************************)

\* variant: the three imports share one try, so the first ImportError skips
\* the remaining probes
Probe_SingleTry(lib, here, next) ==
    /\ dpc = here
    /\ probed' = probed \cup {lib}
    /\ dependencies' = IF lib \in installed
                         THEN [dependencies EXCEPT ![lib] = TRUE]
                         ELSE dependencies
    /\ dpc' = IF lib \in installed THEN next ELSE "report"
    /\ UNCHANGED <<dstdout, dexit_code, installed>>
    /\ UNCHANGED extractVars

\* try: import lib; dependencies[lib] = True / except ImportError: pass
Probe(lib, here, next) ==
    /\ dpc = here
    /\ probed' = probed \cup {lib}
    /\ dependencies' = IF lib \in installed
                         THEN [dependencies EXCEPT ![lib] = TRUE]
                         ELSE dependencies
    /\ dpc' = next
    /\ UNCHANGED <<dstdout, dexit_code, installed>>
    /\ UNCHANGED extractVars

ProbeCv2 == Probe("cv2", "probe_cv2", "probe_mediapipe")

ProbeMediapipe == Probe("mediapipe", "probe_mediapipe", "probe_numpy")

ProbeNumpy == Probe("numpy", "probe_numpy", "report")

\* all(dependencies.values())
all_values(d) == \A l \in DOMAIN d : d[l]

DiagnosticResult(deps) ==
    [python_version |-> sys_version,
     dependencies |-> deps,
     all_dependencies_available |-> all_values(deps)]

\* result = {...}; print(json.dumps(result)); the script ends
Report ==
    /\ dpc = "report"
    /\ dstdout' = Append(dstdout, DiagnosticResult(dependencies))
    /\ dpc' = "exited"
    /\ dexit_code' = 0
    /\ UNCHANGED <<dependencies, probed, installed>>
    /\ UNCHANGED extractVars

(***************************************************************************)
(* Specification                                                           *)
(***************************************************************************)

Next ==
    \/ ImportCv2
    \/ ImportMediapipe
    \/ ImportNumpy
    \/ MainArgCheck
    \/ Construct
    \/ FileCheck
    \/ Decode
    \/ ConvertColor
    \/ Inference
    \/ DetectionCheck
    \/ LoopBody
    \/ Aggregate
    \/ PrintResult
    \/ ProbeCv2
    \/ ProbeMediapipe
    \/ ProbeNumpy
    \/ Report

Spec == Init /\ [][Next]_vars

(***************************************************************************)
(* Vocabulary of the properties                                            *)
(***************************************************************************)

Range(seq) == {seq[i] : i \in 1..Len(seq)}

StartsWith(str, prefix) ==
    /\ Len(str) >= Len(prefix)
    /\ SubSeq(str, 1, Len(prefix)) = prefix

\* the words of phrase occur, adjacent and in order, in str
Contains(str, phrase) ==
    \E i \in 0..(Len(str) - Len(phrase)) : SubSeq(str, i + 1, i + Len(phrase)) = phrase

HasField(obj, field) == field \in DOMAIN obj

Exited == pc = "exited"

AllLoaded == installed = RequiredLibs

NoArgument == Len(argv) < 2

PathAbsent == Len(argv) >= 2 /\ FileKind(argv[2]) = "absent"

Raised == exc # << >>

CaughtBy(guard) == Raised /\ exc[1].guard = guard

\* the outcome a printed object reports, read off the object
Outcome(obj) ==
    CASE obj.success -> "Success"
      [] ~obj.success /\ HasField(obj, "traceback") -> "UnexpectedException"
      [] ~obj.success /\ ~HasField(obj, "traceback")
            /\ StartsWith(obj.error, <<"No", "image", "path", "provided">>)
            -> "MissingArgument"
      [] ~obj.success /\ ~HasField(obj, "traceback")
            /\ StartsWith(obj.error, <<"Missing", "Python", "dependency">>)
            -> "MissingDependency"
      [] ~obj.success /\ ~HasField(obj, "traceback")
            /\ StartsWith(obj.error, <<"Image", "file", "not", "found">>)
            -> "FileNotFound"
      [] ~obj.success /\ ~HasField(obj, "traceback")
            /\ StartsWith(obj.error, <<"Could", "not", "read">>)
            -> "UnreadableImage"
      [] OTHER -> "NoPoseDetected"

RECURSIVE SumVisibility(_)
SumVisibility(kps) ==
    IF kps = << >> THEN 0
    ELSE kps[Len(kps)].visibility + SumVisibility(SubSeq(kps, 1, Len(kps) - 1))

FailureFields == {"success", "error", "keypoints", "confidence"}

SuccessFields == {"success", "keypoints", "keypoints_count", "confidence",
                  "image_dimensions", "pose_detected"}

\* position of a stage in the order of the program text
StageRank(stage) ==
    CASE stage = "import_cv2"          -> 1
      [] stage = "import_mediapipe"    -> 2
      [] stage = "import_numpy"        -> 3
      [] stage = "arg_check"           -> 4
      [] stage = "construct"           -> 5
      [] stage = "file_check"          -> 6
      [] stage = "decode"              -> 7
      [] stage = "color"               -> 8
      [] stage = "inference"           -> 9
      [] stage = "detection_check"     -> 10
      [] stage = "landmark_extraction" -> 11
      [] stage = "aggregate"           -> 12
      [] OTHER                         -> 13

InnerStages == {"file_check", "decode", "color", "inference", "detection_check",
                "landmark_extraction", "aggregate"}

(***************************************************************************)
(* C1                                                                      *)
(***************************************************************************)

\* C1 (as stated): the exit status is nonzero exactly when the reported
\* outcome is MissingArgument, MissingDependency or UnexpectedException,
\* wherever the exception was raised.
C1_ExitNonzeroIffAnyException ==
    Exited =>
        /\ Len(stdout) = 1
        /\ (exit_code # 0) <=>
              (Outcome(stdout[1]) \in
                  {"MissingArgument", "MissingDependency", "UnexpectedException"})

\* C1 (amended): the exit status is nonzero exactly when the reported outcome
\* is MissingArgument, MissingDependency, or an exception caught by the guard
\* of main; an exception caught inside extract_keypoints, FileNotFound,
\* UnreadableImage, NoPoseDetected and Success end with exit status 0.
C1_ExitNonzeroIffOuter ==
    Exited =>
        /\ Len(stdout) = 1
        /\ exit_code \in {0, 1}
        /\ (exit_code # 0) <=>
              \/ Outcome(stdout[1]) \in {"MissingArgument", "MissingDependency"}
              \/ Outcome(stdout[1]) = "UnexpectedException" /\ CaughtBy("outer")
        /\ (Outcome(stdout[1]) = "UnexpectedException" /\ CaughtBy("inner"))
              => exit_code = 0

C1_Witness ==
    /\ Exited
    /\ CaughtBy("inner")
    /\ Len(stdout) = 1
    /\ Outcome(stdout[1]) = "UnexpectedException"
    /\ exit_code = 0

(***************************************************************************)
(* C2                                                                      *)
(***************************************************************************)

\* C2: on every path exactly one object is printed before the process ends,
\* never zero and never two; the sys.exit(1) after the usage failure does not
\* make the guard of main print a second one.
C2_ExactlyOneObject ==
    /\ Len(stdout) <= 1
    /\ Exited => Len(stdout) = 1
    /\ (Exited /\ AllLoaded /\ NoArgument) => stdout = <<UsageFailure>>

C2_Witness ==
    /\ Exited
    /\ AllLoaded
    /\ NoArgument
    /\ stdout = <<UsageFailure>>
    /\ exit_code = 1

(***************************************************************************)
(* C3                                                                      *)
(***************************************************************************)

C4_UsageRegardlessOfLibs ==
    (Exited /\ NoArgument) =>
        /\ exit_code = 1
        /\ stdout = <<UsageFailure>>

\* C4 (amended): with zero arguments the run always ends with exit code 1
\* and one Failure; its error is the usage hint when the three libraries are
\* importable, and the missing-dependency message otherwise, because the
\* import guard runs before the argument check.
C4_UsageWhenLibsLoad ==
    (Exited /\ NoArgument) =>
        /\ exit_code = 1
        /\ Len(stdout) = 1
        /\ IF AllLoaded
             THEN /\ stdout[1] = UsageFailure
                  /\ StartsWith(stdout[1].error, <<"No", "image", "path", "provided", ".", "Usage">>)
             ELSE /\ Outcome(stdout[1]) = "MissingDependency"
                  /\ "arg_check" \notin Range(executed)

C4_Witness ==
    /\ Exited
    /\ NoArgument
    /\ AllLoaded
    /\ Outcome(stdout[1]) = "MissingArgument"
    /\ exit_code = 1

(***************************************************************************)
(* C5                                                                      *)
(***************************************************************************)

\* C5: for every combination of load outcomes diagnose.py probes all three
\* libraries, prints exactly one object whose dependencies map has the three
\* keys, each true exactly when that library loaded, with
\* all_dependencies_available their conjunction, and exits with code 0.
C5_DiagnoseReportsAll ==
    /\ Len(dstdout) <= 1
    /\ dexit_code \in {-1, 0}
    /\ dpc = "exited" =>
          /\ probed = RequiredLibs
          /\ Len(dstdout) = 1
          /\ DOMAIN dstdout[1].dependencies = {"cv2", "mediapipe", "numpy"}
          /\ \A l \in {"cv2", "mediapipe", "numpy"} :
                dstdout[1].dependencies[l] <=> (l \in installed)
          /\ dstdout[1].all_dependencies_available <=>
                (/\ dstdout[1].dependencies["cv2"]
                 /\ dstdout[1].dependencies["mediapipe"]
                 /\ dstdout[1].dependencies["numpy"])
          /\ dexit_code = 0

C5_Witness ==
    /\ dpc = "exited"
    /\ installed = {"mediapipe", "numpy"}
    /\ Len(dstdout) = 1
    /\ ~dstdout[1].dependencies["cv2"]
    /\ dstdout[1].dependencies["numpy"]
    /\ ~dstdout[1].all_dependencies_available
    /\ dexit_code = 0

(***************************************************************************)
(* C6                                                                      *)
(***************************************************************************)

IsCanonical33(obj) ==
    /\ Len(obj.keypoints) = 33
    /\ obj.keypoints_count = 33
    /\ \A i \in 1..Len(obj.keypoints) :
          /\ obj.keypoints[i].id = i - 1
          /\ i <= Len(landmark_names)
          /\ obj.keypoints[i].name = <<landmark_names[i]>>
          /\ ~StartsWith(obj.keypoints[i].name, <<"LANDMARK_">>)

\* C6: whenever extract_keypoints reports success, the keypoints list has
\* exactly 33 entries and keypoints_count is 33, the i-th entry has id i and
\* the i-th name of the landmark table; no fallback name appears.
C6_ThirtyThreeCanonical ==
    /\ (result # << >> /\ result[1].success) => IsCanonical33(result[1])
    /\ (stdout # << >> /\ stdout[1].success) => IsCanonical33(stdout[1])

C6_Witness ==
    /\ Exited
    /\ stdout # << >>
    /\ stdout[1].success
    /\ stdout[1].keypoints[33].name = <<"RIGHT_FOOT_INDEX">>
    /\ stdout[1].keypoints[1].id = 0

(***************************************************************************)
(* C7                                                                      *)
(***************************************************************************)

IsMeanVisibility(obj) ==
    IF Len(obj.keypoints) = 0
      THEN obj.confidence = ZeroFloat
      ELSE /\ obj.confidence.den # 0
           /\ obj.confidence.num * Len(obj.keypoints) =
                 SumVisibility(obj.keypoints) * obj.confidence.den

\* C7: in every Success the confidence is the sum of the visibility values of
\* the emitted keypoints divided by their number (0.0 only for an empty
\* list); the running sum holds each landmark's visibility exactly once.
C7_ConfidenceIsMean ==
    /\ (result # << >> /\ result[1].success) => IsMeanVisibility(result[1])
    /\ (stdout # << >> /\ stdout[1].success) => IsMeanVisibility(stdout[1])
    /\ pc = "loop" =>
          /\ Len(keypoints) = idx
          /\ total_confidence = SumVisibility(keypoints)
          /\ \A i \in 1..Len(keypoints) :
                keypoints[i].visibility = landmarks[i].visibility

C7_Witness ==
    /\ Exited
    /\ stdout # << >>
    /\ stdout[1].success
    /\ stdout[1].keypoints[1].visibility # stdout[1].keypoints[33].visibility
    /\ stdout[1].confidence.num = SumVisibility(stdout[1].keypoints)
    /\ stdout[1].confidence.num > 0
    /\ stdout[1].confidence.den = 33

(***************************************************************************)
(* C8                                                                      *)
(***************************************************************************)

IsFailureShape(obj, nonEmptyError) ==
    /\ ~obj.success
    /\ FailureFields \subseteq DOMAIN obj
    /\ DOMAIN obj \subseteq FailureFields \cup {"traceback"}
    /\ nonEmptyError => obj.error # << >>
    /\ obj.keypoints = << >>
    /\ obj.confidence = ZeroFloat

IsSuccessShape(obj) ==
    /\ obj.success
    /\ DOMAIN obj = SuccessFields
    /\ obj.pose_detected

\* C8 (as stated): every printed outcome is a Failure (success false, a
\* non-empty error, keypoints empty, confidence 0.0, none of the Success
\* fields) or a Success (success and pose_detected true, no error field); a
\* traceback is present only in failures produced by an exception guard.
C8_TwoShapesNonEmptyError ==
    \A n \in 1..Len(stdout) :
        /\ IsFailureShape(stdout[n], TRUE) \/ IsSuccessShape(stdout[n])
        /\ HasField(stdout[n], "traceback") => (CaughtBy("inner") \/ CaughtBy("outer"))

\* C8 (amended): as stated, except that the error of a Failure produced by
\* the guard of extract_keypoints is the exception's message as it is, which
\* is empty for an exception without a message; every other Failure has a
\* non-empty error.
C8_TwoShapes ==
    \A n \in 1..Len(stdout) :
        /\ IsFailureShape(stdout[n], ~CaughtBy("inner")) \/ IsSuccessShape(stdout[n])
        /\ CaughtBy("inner") => stdout[n].error = exc[1].msg
        /\ HasField(stdout[n], "traceback") => (CaughtBy("inner") \/ CaughtBy("outer"))

C8_Witness ==
    /\ Exited
    /\ CaughtBy("inner")
    /\ Len(stdout) = 1
    /\ stdout[1].error = << >>
    /\ HasField(stdout[1], "traceback")

(***************************************************************************)
(* C9                                                                      *)
(***************************************************************************)

Ran(stage) == stage \in Range(executed)

\* C9: the stages run in the order of the program text and none is revisited
\* (the extraction loop repeats its own body only); a failing check ends the
\* run before any later stage: a library that fails to load ends it before
\* the file check, decode and inference; a missing file before decode and
\* inference; a failed decode before inference; landmarks are extracted only
\* after inference reported landmarks.
C9_LinearStages ==
    /\ \A i, j \in 1..Len(executed) :
          i < j =>
             \/ StageRank(executed[i]) < StageRank(executed[j])
             \/ executed[i] = "landmark_extraction" /\ executed[j] = "landmark_extraction"
    /\ ~AllLoaded =>
          /\ ~Ran("file_check") /\ ~Ran("decode") /\ ~Ran("inference")
          /\ ~Ran("arg_check") /\ ~Ran("construct")
    /\ DEPENDENCIES_AVAILABLE = "False" =>
          /\ Exited
          /\ exit_code = 1
          /\ Len(stdout) = 1
          /\ Outcome(stdout[1]) = "MissingDependency"
    /\ PathAbsent => (~Ran("decode") /\ ~Ran("color") /\ ~Ran("inference"))
    /\ (Len(argv) >= 2 /\ FileKind(argv[2]) = "not_image") =>
          (~Ran("color") /\ ~Ran("inference") /\ ~Ran("landmark_extraction"))
    /\ (Raised /\ exc[1].stage = "decode") => ~Ran("inference")
    /\ Ran("landmark_extraction") =>
          /\ Ran("inference")
          /\ Ran("detection_check")
          /\ results # << >>
          /\ results[1].pose_landmarks # << >>
    /\ Ran("aggregate") => Ran("landmark_extraction")

C9_Witness ==
    /\ Exited
    /\ Len(argv) >= 2
    /\ FileKind(argv[2]) = "not_image"
    /\ Ran("decode")
    /\ stdout = <<UnreadableFailure(argv[2])>>

(***************************************************************************)
(* C10                                                                     *)
(***************************************************************************)

\* C10: an exception raised inside extract_keypoints is caught there and
\* returned as a Failure carrying its message and a traceback, and never
\* reaches the guard of main; an exception raised in main outside
\* extract_keypoints is caught by the guard of main and reported as a Failure
\* with a traceback and exit status 1; no exception ends the process without
\* a Failure having been printed.
C10_GuardsCatchEverything ==
    /\ (Raised /\ exc[1].stage \in InnerStages) =>
          /\ exc[1].guard = "inner"
          /\ result # << >>
          /\ ~result[1].success
          /\ result[1].error = exc[1].msg
          /\ HasField(result[1], "traceback")
          /\ result[1].traceback # << >>
          /\ ~Exited => stdout = << >>
          /\ Exited => (stdout = result /\ exit_code = 0)
    /\ (Raised /\ exc[1].stage \notin InnerStages) =>
          /\ exc[1].guard = "outer"
          /\ Exited
          /\ Len(stdout) = 1
          /\ ~stdout[1].success
          /\ Contains(stdout[1].error, exc[1].msg)
          /\ HasField(stdout[1], "traceback")
          /\ exit_code = 1
    /\ (Raised /\ Exited) =>
          /\ Len(stdout) = 1
          /\ ~stdout[1].success

C10_Witness ==
    /\ Exited
    /\ CaughtBy("outer")
    /\ exc[1].stage = "construct"
    /\ Len(stdout) = 1
    /\ HasField(stdout[1], "traceback")
    /\ exit_code = 1

====
